---- MODULE Spec2Model ----
(***************************************************************************)
(* Model of translate.py: the chunking translation adapter (chunk_text,    *)
(* translate_text), the archive rewriter (translate_docx), the page        *)
(* rewriter (translate_pdf), the pandoc bridge and the dispatcher          *)
(* (process_file) driven by main.                                          *)
(*                                                                         *)
(* Texts are sequences of one-character strings.  The length limit, 4000   *)
(* in the source (the default of chunk_text's max_len and the literal in   *)
(* translate_text), is scaled down: it is the variable `limit`, drawn from *)
(* 1..MaxLimit, and is used wherever the source uses 4000.                 *)
(***************************************************************************)
EXTENDS Integers, Sequences, FiniteSets, TLC

\* ---------------------------------------------------------------- bounds
MaxLen == 5
MaxLimit == 3
MaxFail == 2
MaxPrior == 1
MaxJobs == 2

\* ---------------------------------------------------------------- texts
Whitespace == {" "}
Letters == {"a", "b"}
Chars == Whitespace \cup Letters

RECURSIVE SeqsUpTo(_, _)
SeqsUpTo(S, n) ==
    IF n = 0 THEN {<<>>}
    ELSE LET shorter == SeqsUpTo(S, n - 1)
         IN  shorter \cup {Append(s, c) : s \in {t \in shorter : Len(t) = n - 1}, c \in S}

Texts == SeqsUpTo(Chars, MaxLen)

\* str.strip(): leading whitespace removed, then trailing whitespace.
RECURSIVE lstrip(_)
lstrip(s) ==
    IF s = <<>> THEN <<>>
    ELSE IF Head(s) \in Whitespace THEN lstrip(Tail(s)) ELSE s

RECURSIVE rstrip(_)
rstrip(s) ==
    IF s = <<>> THEN <<>>
    ELSE IF s[Len(s)] \in Whitespace THEN rstrip(SubSeq(s, 1, Len(s) - 1)) ELSE s

strip(s) == rstrip(lstrip(s))

\* str.split() without arguments: the maximal runs of non-whitespace characters.
\* SplitFrom scans s from position i with the word collected so far in cur.
RECURSIVE SplitFrom(_, _, _, _)
SplitFrom(s, i, cur, words) ==
    IF i > Len(s) THEN (IF cur = <<>> THEN words ELSE Append(words, cur))
    ELSE IF s[i] \in Whitespace
         THEN SplitFrom(s, i + 1, <<>>, IF cur = <<>> THEN words ELSE Append(words, cur))
         ELSE SplitFrom(s, i + 1, Append(cur, s[i]), words)

split(s) == SplitFrom(s, 1, <<>>, <<>>)

\* sep.join(parts)
RECURSIVE join(_, _)
join(sep, parts) ==
    IF parts = <<>> THEN <<>>
    ELSE IF Len(parts) = 1 THEN parts[1]
    ELSE parts[1] \o sep \o join(sep, Tail(parts))

\* ------------------------------------------------------------ chunk_text
\* The body of the for loop of chunk_text for one word: the pair
\* (chunks, current) after the word.
ChunkStepDropWord(chunks, current, word, max_len) ==
    IF Len(current) + Len(word) + 1 > max_len
    THEN [chunks |-> Append(chunks, strip(current)), current |-> <<>>]
    ELSE [chunks |-> chunks, current |-> current \o word \o <<" ">>]

ChunkStep(chunks, current, word, max_len) ==
    IF Len(current) + Len(word) + 1 > max_len
    THEN [chunks |-> Append(chunks, strip(current)), current |-> word \o <<" ">>]
    ELSE [chunks |-> chunks, current |-> current \o word \o <<" ">>]

RECURSIVE ChunkLoop(_, _, _, _, _)
ChunkLoop(words, i, chunks, current, max_len) ==
    IF i > Len(words) THEN [chunks |-> chunks, current |-> current]
    ELSE LET st == ChunkStep(chunks, current, words[i], max_len)
         IN  ChunkLoop(words, i + 1, st.chunks, st.current, max_len)

chunk_text(text, max_len) ==
    LET st == ChunkLoop(split(text), 1, <<>>, <<>>, max_len)
    IN  IF st.current # <<>> THEN Append(st.chunks, strip(st.current)) ELSE st.chunks

\* -------------------------------------------------------- translate_text
\* The translation backend (GoogleTranslator.translate): an external service.
\* It is modelled as a letter-by-letter substitution that keeps whitespace, so
\* a translated text differs from its source whenever the source has a letter.
TranslateChar(c) == IF c = "a" THEN "p" ELSE IF c = "b" THEN "q" ELSE c

Translate(chunk) == [i \in 1..Len(chunk) |-> TranslateChar(chunk[i])]

\* translate_text(text) with the limit lim, when the backend raises on its
\* fail-th call of this invocation (fail = 0: the backend never raises).
\*   requests: the texts handed to the backend, in call order
\*   raised:   the backend's exception left translate_text
\*   result:   the value returned (<<>> when raised)
\* Line 30: `not text.strip()`.
IsBlankEmptyOnly(text) == text = <<>>

IsBlank(text) == strip(text) = <<>>

\* Line 33: `len(text) > 4000`.
NeedsChunkingAtLimit(text, lim) == Len(text) >= lim

NeedsChunking(text, lim) == Len(text) > lim

translate_text(text, lim, fail) ==
    IF IsBlank(text)
    THEN [requests |-> <<>>, raised |-> FALSE, result |-> text]
    ELSE LET parts == IF NeedsChunking(text, lim) THEN chunk_text(text, lim) ELSE <<text>>
             exc == fail \in 1..Len(parts)
         IN  [requests |-> IF exc THEN SubSeq(parts, 1, fail) ELSE parts,
              raised   |-> exc,
              result   |-> IF exc THEN <<>>
                           ELSE IF NeedsChunking(text, lim)
                                THEN join(<<" ">>, [i \in 1..Len(parts) |-> Translate(parts[i])])
                                ELSE Translate(text)]

\* ------------------------------------------------------------- documents
\* Paragraph texts and embedded images of the documents of the batch.
PA == <<"a">>
PAB == <<"a", " ", "b">>
PBlank == <<" ">>

\* An embedded file of word/media: raster is whether its name ends in
\* .png/.jpg/.jpeg, ocr is the text recognition finds in it, overlay is the
\* text drawn on its bottom strip (NoOverlay: the file is as in the input).
NoOverlay == <<"-">>
Img(raster, ocr) == [raster |-> raster, ocr |-> ocr, overlay |-> NoOverlay]

\* The word/media folder of an archive: whether it exists and its files.
Media(present, files) == [present |-> present, files |-> files]
Medias == {Media(FALSE, <<>>), Media(TRUE, <<>>), Media(TRUE, <<Img(TRUE, PA)>>),
           Media(TRUE, <<Img(TRUE, PBlank), Img(FALSE, PA)>>),
           Media(TRUE, <<Img(TRUE, PAB)>>)}
Bodies == {<<PA>>, <<PBlank, PAB>>, <<<<>>>>}
Cells == {<<>>, <<PA>>, <<PAB>>}

Docs == [body : Bodies, cells : Cells, media : Medias]

Exts == {".docx", ".pdf", ".doc", ".rtf"}

\* Output directories: "out/sub" lies inside "out".
Dirs == {"out", "out/sub"}
Ancestors(d) == IF d = "out/sub" THEN {"out", "out/sub"} ELSE {d}
DirStates == {{}, {"out"}, {"out", "out/sub"}}

\* os.makedirs(d, exist_ok=True): d and its missing parents exist afterwards.
makedirs(existing, d) == existing \cup Ancestors(d)

\* A path with no file, a file left half-written, and no job.
NoFile == [fmt |-> "none"]
Partial == [fmt |-> "partial"]
NoJob == [ext |-> "none"]

\* Content of a file: the format and the document it holds.
File(fmt, doc) == [fmt |-> fmt, body |-> doc.body, cells |-> doc.cells, media |-> doc.media]
IsFile(f) == f # NoFile /\ f # Partial

\* pandoc <input> -o <output>: the same document in the target format.
convert_using_pandoc(f, to_format) == [f EXCEPT !.fmt = to_format]

\* Kinds of failure a step can raise (all are Python Exceptions).
FailureKinds == {"translation", "recognition", "conversion", "converter_missing", "io"}

\* The except clauses: which exceptions each try block catches.
\* translate_docx line 83, translate_pdf line 108, process_file line 150.
CatchesOnlyIO(kind) == kind = "io"

translate_docx_catches(kind) == kind \in FailureKinds

translate_pdf_catches(kind) == kind \in FailureKinds

process_file_catches(kind) == kind \in FailureKinds

\* Leaving a `with tempfile.TemporaryDirectory()` block, normally or by an
\* exception (byException): the directory is removed.
ExitTempDirLeakOnError(live, d, byException) == IF byException THEN live ELSE live \ {d}

ExitTempDir(live, d, byException) == live \ {d}

\* Translating a list of paragraphs in order (the loops of lines 45-51 and
\* 93-104) when the backend raises on its fail-th call (0: never).
RECURSIVE TranslateAll(_, _, _)
TranslateAll(paras, lim, fail) ==
    IF paras = <<>> THEN [texts |-> <<>>, raised |-> FALSE]
    ELSE LET r == translate_text(Head(paras), lim, fail)
         IN  IF r.raised THEN [texts |-> <<>>, raised |-> TRUE]
             ELSE LET rest == TranslateAll(Tail(paras), lim,
                                           IF fail = 0 THEN 0 ELSE fail - Len(r.requests))
                  IN  [texts |-> <<r.result>> \o rest.texts, raised |-> rest.raised]

\* The image loop of lines 61-74 over the files of word/media, when
\* recognition raises on the ocrFail-th raster image (0: never) and the
\* backend raises on its fail-th call (0: never).
RECURSIVE OverlayAll(_, _, _, _)
OverlayAll(imgs, lim, ocrFail, fail) ==
    IF imgs = <<>> THEN [imgs |-> <<>>, raised |-> "none"]
    ELSE LET img == Head(imgs)
         IN  IF ~img.raster
             THEN LET rest == OverlayAll(Tail(imgs), lim, ocrFail, fail)
                  IN  [imgs |-> <<img>> \o rest.imgs, raised |-> rest.raised]
             ELSE IF ocrFail = 1 THEN [imgs |-> <<>>, raised |-> "recognition"]
             ELSE LET r == IF strip(img.ocr) # <<>>
                           THEN translate_text(img.ocr, lim, fail)
                           ELSE [requests |-> <<>>, raised |-> FALSE, result |-> <<>>]
                  IN  IF r.raised THEN [imgs |-> <<>>, raised |-> "translation"]
                      ELSE LET done == IF strip(img.ocr) # <<>>
                                       THEN [img EXCEPT !.overlay = r.result]
                                       ELSE img
                               rest == OverlayAll(Tail(imgs), lim,
                                                  IF ocrFail = 0 THEN 0 ELSE ocrFail - 1,
                                                  IF fail = 0 THEN 0 ELSE fail - Len(r.requests))
                           IN  [imgs |-> <<done>> \o rest.imgs, raised |-> rest.raised]

\* ------------------------------------------------------------------ state
VARIABLES
    limit,      \* the length limit (4000 in the source)
    text,       \* the text handed to chunk_text / translate_text
    failAt,     \* which backend call of the invocation raises (0: none)
    tpc,        \* "start" | "chunked" | "translated"
    chunks,     \* the list chunk_text returned
    calls,      \* number of backend calls made so far
    callsBefore,\* value of calls when translate_text was entered
    requests,   \* texts sent to the backend by the last translate_text
    result,     \* value returned by the last translate_text
    raised,     \* the last translate_text left by a backend exception
    pc,         \* where control is: "main", a step of a rewriter, "returned", "crashed"
    jobNo,      \* number of jobs main has handed to process_file
    job,        \* the job being processed: [ext, dir, doc, sameName]
    caller,     \* who called translate_docx: "process_file" or "bridge"
    dirs,       \* the output directories that exist
    tempdirs,   \* the temporary directories that exist
    files,      \* [interm, converted, output]: the files the job has written
    memdoc,     \* the in-memory document (python-docx / pymupdf)
    unpacked,   \* content of translate_docx's extraction directory
    failed,     \* the steps of the current job that raised
    ran,        \* the steps of the current job that completed
    logged      \* "Failed to ..." lines printed for the current job

tvars == <<limit, text, failAt, tpc, chunks, calls, callsBefore, requests, result, raised>>

jvars == <<pc, jobNo, job, caller, dirs, tempdirs, files, memdoc, unpacked, failed, ran, logged>>

vars == <<tvars, jvars>>

NoFiles == [interm |-> NoFile, converted |-> NoFile, output |-> NoFile]
NoDoc == [loaded |-> FALSE, body |-> <<>>, cells |-> <<>>]

\* The state in which no job is being processed.
Idle ==
    /\ pc = "main"
    /\ job = NoJob
    /\ caller = "process_file"
    /\ tempdirs = {}
    /\ files = NoFiles
    /\ memdoc = NoDoc
    /\ unpacked = NoFile
    /\ failed = {}
    /\ ran = {}
    /\ logged = 0

NoText ==
    /\ text = <<>>
    /\ failAt = 0
    /\ tpc = "idle"
    /\ chunks = <<>>
    /\ calls = 0
    /\ callsBefore = 0
    /\ requests = <<>>
    /\ result = <<>>
    /\ raised = FALSE

\* ------------------------------------------- chunk_text and translate_text
InitText ==
    /\ limit \in 1..MaxLimit
    /\ text \in Texts
    /\ failAt \in 0..MaxFail
    /\ calls \in 0..MaxPrior
    /\ callsBefore = calls
    /\ tpc = "start"
    /\ chunks = <<>>
    /\ requests = <<>>
    /\ result = <<>>
    /\ raised = FALSE
    /\ jobNo = 0
    /\ dirs = {}
    /\ Idle

\* chunk_text(text, limit) is called on its own.
CallChunkText ==
    /\ tpc = "start"
    /\ chunks' = chunk_text(text, limit)
    /\ tpc' = "chunked"
    /\ UNCHANGED <<limit, text, failAt, calls, callsBefore, requests, result, raised>>
    /\ UNCHANGED jvars

\* translate_text(text) is called.
CallTranslateText ==
    /\ tpc \in {"start", "chunked"}
    /\ LET r == translate_text(text, limit, failAt)
       IN  /\ requests' = r.requests
           /\ raised' = r.raised
           /\ result' = r.result
           /\ calls' = calls + Len(r.requests)
    /\ callsBefore' = calls
    /\ tpc' = "translated"
    /\ UNCHANGED <<limit, text, failAt, chunks>>
    /\ UNCHANGED jvars

NextText == CallChunkText \/ CallTranslateText

SpecText == InitText /\ [][NextText]_vars

\* ------------------------------------------------------- the batch of jobs
Init ==
    /\ limit \in 1..MaxLimit
    /\ NoText
    /\ jobNo = 0
    /\ dirs \in DirStates
    /\ Idle

\* main hands the next file of the batch to process_file, which routes it by
\* its extension.
Dispatch ==
    /\ pc = "main"
    /\ jobNo < MaxJobs
    /\ \E ext \in Exts, dir \in Dirs, doc \in Docs, same \in BOOLEAN :
          /\ (ext \in {".docx", ".pdf"} => same)
          /\ job' = [ext |-> ext, dir |-> dir, doc |-> doc, sameName |-> same]
          /\ pc' = IF ext = ".docx" THEN "docx_translate"
                   ELSE IF ext = ".pdf" THEN "pdf_translate"
                   ELSE "bridge_to_docx"
    /\ jobNo' = jobNo + 1
    /\ UNCHANGED <<caller, dirs, tempdirs, files, memdoc, unpacked, failed, ran, logged>>
    /\ UNCHANGED tvars

\* main's loop goes on to the next file: nothing of the job is kept.
MainNext ==
    /\ pc = "returned"
    /\ pc' = "main"
    /\ job' = NoJob
    /\ caller' = "process_file"
    /\ files' = NoFiles
    /\ memdoc' = NoDoc
    /\ unpacked' = NoFile
    /\ failed' = {}
    /\ ran' = {}
    /\ logged' = 0
    /\ UNCHANGED <<jobNo, dirs, tempdirs>>
    /\ UNCHANGED tvars

\* ---------------------------------------------------------- translate_docx
\* The file translate_docx reads and the place it writes: the job's input and
\* output, or, called from the bridge, the intermediate document for both.
DocxInput == IF caller = "bridge" THEN files.interm ELSE File("docx", job.doc)
DocxOutDirExists == IF caller = "bridge" THEN "bridge_tmp" \in tempdirs ELSE job.dir \in dirs
DocxWrite(f) == IF caller = "bridge" THEN [files EXCEPT !.interm = f]
                ELSE [files EXCEPT !.output = f]

\* An exception of the given kind is raised at `site` in translate_docx with
\* the temporary directories `live` (inWith: inside the with block).  It is
\* caught at line 83 and translate_docx returns to its caller.
DocxRaise(site, kind, live, inWith) ==
    LET left == IF inWith THEN ExitTempDir(live, "docx_tmp", TRUE) ELSE live
        caught == translate_docx_catches(kind)
        outer == caller = "bridge" /\ process_file_catches(kind)
    IN  /\ failed' = failed \cup {site}
        /\ unpacked' = NoFile
        /\ logged' = IF caught \/ outer THEN logged + 1 ELSE logged
        /\ tempdirs' = IF caught \/ caller # "bridge" THEN left
                       ELSE ExitTempDir(left, "bridge_tmp", TRUE)
        /\ pc' = IF caught THEN (IF caller = "bridge" THEN "bridge_back" ELSE "returned")
                 ELSE IF outer THEN "returned" ELSE "crashed"

\* Lines 44-51: open the document and translate the body paragraphs, then the
\* paragraphs of the table cells.
DocxTranslate ==
    /\ pc = "docx_translate"
    /\ \E ioFail \in BOOLEAN, fail \in 0..MaxFail :
          LET src == DocxInput
              r == TranslateAll(src.body \o src.cells, limit, fail)
          IN  IF ioFail \/ ~IsFile(src)
              THEN DocxRaise("open", "io", tempdirs, FALSE) /\ UNCHANGED <<memdoc, ran>>
              ELSE IF r.raised
              THEN DocxRaise("phase1", "translation", tempdirs, FALSE) /\ UNCHANGED <<memdoc, ran>>
              ELSE /\ memdoc' = [loaded |-> TRUE,
                                 body |-> SubSeq(r.texts, 1, Len(src.body)),
                                 cells |-> SubSeq(r.texts, Len(src.body) + 1, Len(r.texts))]
                   /\ ran' = ran \cup {"phase1"}
                   /\ pc' = "docx_unpack"
                   /\ UNCHANGED <<tempdirs, unpacked, failed, logged>>
    /\ UNCHANGED <<jobNo, job, caller, dirs, files>>
    /\ UNCHANGED tvars

\* Lines 54-57: create the temporary directory and extract the input archive.
DocxUnpack ==
    /\ pc = "docx_unpack"
    /\ \E ioFail \in BOOLEAN :
          IF ioFail \/ ~IsFile(DocxInput)
          THEN DocxRaise("unpack", "io", tempdirs \cup {"docx_tmp"}, TRUE) /\ UNCHANGED ran
          ELSE /\ tempdirs' = tempdirs \cup {"docx_tmp"}
               /\ unpacked' = DocxInput
               /\ ran' = ran \cup {"unpack"}
               /\ pc' = "docx_images"
               /\ UNCHANGED <<failed, logged>>
    /\ UNCHANGED <<jobNo, job, caller, dirs, files, memdoc>>
    /\ UNCHANGED tvars

\* Lines 59-74: recognise, translate and overlay the raster images of
\* word/media, when the folder exists.
DocxImages ==
    /\ pc = "docx_images"
    /\ IF ~unpacked.media.present
       THEN /\ pc' = "docx_repack"
            /\ UNCHANGED <<tempdirs, unpacked, failed, ran, logged>>
       ELSE \E ocrFail \in 0..1, fail \in 0..MaxFail :
               LET r == OverlayAll(unpacked.media.files, limit, ocrFail, fail)
               IN  IF r.raised # "none"
                   THEN DocxRaise("images", r.raised, tempdirs, TRUE) /\ UNCHANGED ran
                   ELSE /\ unpacked' = [unpacked EXCEPT !.media.files = r.imgs]
                        /\ ran' = ran \cup {"images"}
                        /\ pc' = "docx_repack"
                        /\ UNCHANGED <<tempdirs, failed, logged>>
    /\ UNCHANGED <<jobNo, job, caller, dirs, files, memdoc>>
    /\ UNCHANGED tvars

\* Lines 76-80 and the end of the with block: write the extraction directory
\* as a new archive at output_path, then remove the directory.  Opening the
\* archive for writing raises when output_path's directory does not exist.
DocxRepack ==
    /\ pc = "docx_repack"
    /\ IF ~DocxOutDirExists
       THEN /\ DocxRaise("repack_nodir", "io", tempdirs, TRUE)
            /\ UNCHANGED <<files, ran>>
       ELSE \E ioFail \in BOOLEAN, partial \in BOOLEAN :
               IF ioFail
               THEN /\ DocxRaise("repack", "io", tempdirs, TRUE)
                    /\ files' = IF partial THEN DocxWrite(Partial) ELSE files
                    /\ UNCHANGED ran
               ELSE /\ files' = DocxWrite(unpacked)
                    /\ tempdirs' = ExitTempDir(tempdirs, "docx_tmp", FALSE)
                    /\ unpacked' = NoFile
                    /\ ran' = ran \cup {"repack"}
                    /\ pc' = "docx_makedirs"
                    /\ UNCHANGED <<failed, logged>>
    /\ UNCHANGED <<jobNo, job, caller, dirs, memdoc>>
    /\ UNCHANGED tvars

\* Line 82: create output_path's directory; translate_docx returns.
DocxMakedirs ==
    /\ pc = "docx_makedirs"
    /\ dirs' = IF caller = "bridge" THEN dirs ELSE makedirs(dirs, job.dir)
    /\ pc' = IF caller = "bridge" THEN "bridge_back" ELSE "returned"
    /\ UNCHANGED <<jobNo, job, caller, tempdirs, files, memdoc, unpacked, failed, ran, logged>>
    /\ UNCHANGED tvars

\* ----------------------------------------------------------- translate_pdf
\* An exception raised in translate_pdf: caught at line 108.
PdfRaise(site, kind) ==
    /\ failed' = failed \cup {site}
    /\ logged' = IF translate_pdf_catches(kind) THEN logged + 1 ELSE logged
    /\ pc' = IF translate_pdf_catches(kind) THEN "returned" ELSE "crashed"

\* Lines 89-104: open the document and replace every text block by its
\* translation on the overlay layer.
PdfTranslate ==
    /\ pc = "pdf_translate"
    /\ \E ioFail \in BOOLEAN, fail \in 0..MaxFail :
          LET r == TranslateAll(job.doc.body \o job.doc.cells, limit, fail)
          IN  IF ioFail
              THEN PdfRaise("open", "io") /\ UNCHANGED <<memdoc, ran>>
              ELSE IF r.raised
              THEN PdfRaise("blocks", "translation") /\ UNCHANGED <<memdoc, ran>>
              ELSE /\ memdoc' = [loaded |-> TRUE,
                                 body |-> SubSeq(r.texts, 1, Len(job.doc.body)),
                                 cells |-> SubSeq(r.texts, Len(job.doc.body) + 1, Len(r.texts))]
                   /\ ran' = ran \cup {"blocks"}
                   /\ pc' = "pdf_save"
                   /\ UNCHANGED <<failed, logged>>
    /\ UNCHANGED <<jobNo, job, caller, dirs, tempdirs, files, unpacked>>
    /\ UNCHANGED tvars

\* Lines 105-107: create the output directory, then save the document.
PdfSave ==
    /\ pc = "pdf_save"
    /\ dirs' = makedirs(dirs, job.dir)
    /\ \E ioFail \in BOOLEAN, partial \in BOOLEAN :
          IF ioFail
          THEN /\ PdfRaise("save", "io")
               /\ files' = IF partial THEN [files EXCEPT !.output = Partial] ELSE files
               /\ UNCHANGED ran
          ELSE /\ files' = [files EXCEPT !.output =
                               [fmt |-> "pdf", body |-> memdoc.body, cells |-> memdoc.cells,
                                media |-> job.doc.media]]
               /\ ran' = ran \cup {"save"}
               /\ pc' = "returned"
               /\ UNCHANGED <<failed, logged>>
    /\ UNCHANGED <<jobNo, job, caller, tempdirs, memdoc, unpacked>>
    /\ UNCHANGED tvars

\* ------------------------------------------- process_file, .doc and .rtf
Format == IF job.ext = ".doc" THEN "doc" ELSE "rtf"

\* An exception raised in the with block of process_file: the temporary
\* directory is removed and the exception is caught at line 150.
BridgeRaise(site, kind, live) ==
    /\ failed' = failed \cup {site}
    /\ tempdirs' = ExitTempDir(live, "bridge_tmp", TRUE)
    /\ logged' = IF process_file_catches(kind) THEN logged + 1 ELSE logged
    /\ pc' = IF process_file_catches(kind) THEN "returned" ELSE "crashed"

\* Lines 134-140: create the temporary directory, convert the input to the
\* intermediate .docx in it and call translate_docx on it, in place.
BridgeToDocx ==
    /\ pc = "bridge_to_docx"
    /\ \E outcome \in {"ok", "converter_missing", "conversion"} :
          IF outcome # "ok"
          THEN /\ BridgeRaise("to_docx", outcome, tempdirs \cup {"bridge_tmp"})
               /\ UNCHANGED <<files, caller, ran>>
          ELSE /\ tempdirs' = tempdirs \cup {"bridge_tmp"}
               /\ files' = [files EXCEPT !.interm =
                               convert_using_pandoc(File(Format, job.doc), "docx")]
               /\ caller' = "bridge"
               /\ ran' = ran \cup {"to_docx"}
               /\ pc' = "docx_translate"
               /\ UNCHANGED <<failed, logged>>
    /\ UNCHANGED <<jobNo, job, dirs, memdoc, unpacked>>
    /\ UNCHANGED tvars

\* Lines 142-145: create the output directory and convert the intermediate
\* document back to the original format, into the output directory.
BridgeBack ==
    /\ pc = "bridge_back"
    /\ dirs' = makedirs(dirs, job.dir)
    /\ \E outcome \in {"ok", "converter_missing", "conversion"} :
          IF outcome # "ok" \/ ~IsFile(files.interm)
          THEN /\ BridgeRaise("back", IF outcome = "ok" THEN "conversion" ELSE outcome, tempdirs)
               /\ files' = [files EXCEPT !.interm = NoFile]
               /\ UNCHANGED ran
          ELSE /\ files' = IF job.sameName
                           THEN [files EXCEPT !.output = convert_using_pandoc(files.interm, Format)]
                           ELSE [files EXCEPT !.converted = convert_using_pandoc(files.interm, Format)]
               /\ ran' = ran \cup {"back"}
               /\ pc' = "bridge_rename"
               /\ UNCHANGED <<tempdirs, failed, logged>>
    /\ UNCHANGED <<jobNo, job, caller, memdoc, unpacked>>
    /\ UNCHANGED tvars

\* Lines 147-149 and the end of the with block: rename the converted file to
\* output_path when the names differ, then remove the temporary directory.
BridgeRename ==
    /\ pc = "bridge_rename"
    /\ \E ioFail \in BOOLEAN :
          IF ioFail /\ ~job.sameName
          THEN /\ BridgeRaise("rename", "io", tempdirs)
               /\ files' = [files EXCEPT !.interm = NoFile]
               /\ UNCHANGED ran
          ELSE /\ files' = IF job.sameName THEN [files EXCEPT !.interm = NoFile]
                           ELSE [interm |-> NoFile, converted |-> NoFile,
                                 output |-> files.converted]
               /\ tempdirs' = ExitTempDir(tempdirs, "bridge_tmp", FALSE)
               /\ ran' = ran \cup {"rename"}
               /\ pc' = "returned"
               /\ UNCHANGED <<failed, logged>>
    /\ UNCHANGED <<jobNo, job, caller, dirs, memdoc, unpacked>>
    /\ UNCHANGED tvars

Next ==
    \/ Dispatch
    \/ MainNext
    \/ DocxTranslate
    \/ DocxUnpack
    \/ DocxImages
    \/ DocxRepack
    \/ DocxMakedirs
    \/ PdfTranslate
    \/ PdfSave
    \/ BridgeToDocx
    \/ BridgeBack
    \/ BridgeRename

Spec == Init /\ [][Next]_vars

\* ------------------------------------------------------------ properties
\* The paragraphs as translate_text returns them when the backend never raises.
Translated(paras) == TranslateAll(paras, limit, 0).texts

\* The words of a list of chunks, in order.
RECURSIVE WordsOf(_)
WordsOf(cs) == IF cs = <<>> THEN <<>> ELSE split(Head(cs)) \o WordsOf(Tail(cs))

\* The characters the words of a text take when each is followed by one space.
RECURSIVE Budget(_)
Budget(words) == IF words = <<>> THEN 0 ELSE Len(Head(words)) + 1 + Budget(Tail(words))

\* Backend calls made by the last translate_text.
CallsMade == calls - callsBefore

BridgeJob == job.ext \in {".doc", ".rtf"}
RewriteSites == {"open", "phase1", "unpack", "images", "repack", "repack_nodir"}

\* C1: after a translate_docx that completes without failure, the document
\* written at output_path holds the translated text of every body paragraph
\* and of every table-cell paragraph.
C1_OutputHoldsTranslatedText ==
    /\ (pc = "returned" /\ job.ext = ".docx" /\ failed = {})
          => /\ IsFile(files.output)
             /\ files.output.body = Translated(job.doc.body)
             /\ files.output.cells = Translated(job.doc.cells)
    /\ (pc = "bridge_back" /\ failed = {})
          => /\ IsFile(files.interm)
             /\ files.interm.body = Translated(job.doc.body)
             /\ files.interm.cells = Translated(job.doc.cells)

\* C2: every chunk chunk_text(text, limit) produces has at most limit
\* characters, also when the text holds a word longer than the limit.
C2_ChunkWithinLimit ==
    tpc = "chunked" => \A i \in 1..Len(chunks) : Len(chunks[i]) <= limit

\* C3 as claimed: a non-blank text of exactly limit characters takes exactly
\* one backend call, and every non-blank text of limit+1 characters takes at
\* least two (translate_text returning normally).
C3_SingleCallThreshold ==
    (tpc = "translated" /\ strip(text) # <<>> /\ ~raised)
       => /\ (Len(text) = limit => CallsMade = 1)
          /\ (Len(text) = limit + 1 => CallsMade >= 2)

\* C3 amended: a non-blank text of exactly limit characters takes exactly one
\* backend call; a non-blank text of limit+1 characters, translate_text
\* returning normally, takes at least one call, and at least two exactly
\* when its words, each followed by one space, take more than limit characters.
C3_ThresholdByWords ==
    (tpc = "translated" /\ strip(text) # <<>>)
       => /\ (Len(text) = limit => CallsMade = 1)
          /\ (Len(text) = limit + 1 /\ ~raised
                => /\ CallsMade >= 1
                   /\ (CallsMade >= 2 <=> Budget(split(text)) > limit))

C3_Witness ==
    /\ tpc = "translated"
    /\ ~raised
    /\ Len(text) = limit + 1
    /\ strip(text) # <<>>
    /\ Budget(split(text)) <= limit
    /\ CallsMade = 1

\* C4: no failure of a job reaches the batch driver: whatever step fails, for
\* every extension, the exception is caught and control goes on inside
\* process_file or returns to main.
C4_NoFailureReachesMain ==
    /\ pc # "crashed"
    /\ (failed # {} => pc \in {"returned", "bridge_back", "bridge_rename"})

C4_Witness ==
    /\ pc = "returned"
    /\ job.ext = ".pdf"
    /\ "blocks" \in failed
    /\ jobNo = MaxJobs

\* C5: in the bridge path a failure of any step aborts the bridge: when
\* process_file returns after a failure there is no file at output_path, and
\* after a failed rewrite the conversion back has not run.
C5_BridgeAbortsOnFailure ==
    (pc = "returned" /\ BridgeJob /\ failed # {})
       => /\ files.output = NoFile
          /\ (failed \cap RewriteSites # {} => "back" \notin ran)

\* C6: a job whose steps all succeed produces its output file, also when its
\* output directory did not exist: the directory is created before the write.
C6_OutputDirOnDemand ==
    (pc = "returned" /\ failed \subseteq {"repack_nodir"}) => IsFile(files.output)

\* C7: translate_text on an empty or whitespace-only text returns the text
\* unchanged and makes no backend call.
C7_BlankTextNoCall ==
    (tpc = "translated" /\ strip(text) = <<>>)
       => /\ result = text
          /\ calls = callsBefore
          /\ requests = <<>>
          /\ ~raised

C7_Witness ==
    /\ tpc = "translated"
    /\ text = <<" ", " ">>
    /\ calls = 1
    /\ result = <<" ", " ">>

\* C8: when translate_docx or process_file has returned, on success or after
\* any failure, the temporary directory it created no longer exists.
C8_TempDirsRemoved ==
    /\ (pc \in {"main", "returned", "crashed"} => tempdirs = {})
    /\ (pc \in {"docx_makedirs", "bridge_back", "bridge_rename"} => "docx_tmp" \notin tempdirs)

C8_Witness ==
    /\ pc = "returned"
    /\ job.ext = ".rtf"
    /\ "images" \in failed
    /\ "back" \in ran
    /\ tempdirs = {}

C10_NoEmptyRequest ==
    /\ (tpc = "chunked" => \A i \in 1..Len(chunks) : strip(chunks[i]) # <<>>)
    /\ (tpc = "translated" => \A i \in 1..Len(requests) : strip(requests[i]) # <<>>)

====
